---- MODULE Spec2Model ----
(***************************************************************************)
(* Window Solution Simulator: the App component's state (step, uploaded    *)
(* file, product type, manual selection, result, loading flag, ...), the   *)
(* fabric catalog with its admin additions, and the manual and automatic   *)
(* simulation runs with their remote requests.                             *)
(*                                                                         *)
(* Every React event handler is one action.  The async run functions are   *)
(* cut at their awaits: the part up to the first await belongs to the      *)
(* action that starts the run, each continuation to the action that        *)
(* resolves the outstanding request.  A handler that throws before it      *)
(* calls a state setter leaves the state as it was.                        *)
(***************************************************************************)
EXTENDS Integers, Sequences, FiniteSets, TLC

VARIABLES
    step,              \* AppStep
    uploadedFile,      \* Absent or <<[base64, name, type]>>
    productType,       \* NULL or a ProductType
    simulationMode,    \* NULL or a SimulationMode
    manualSelection,   \* Absent or <<[fabricCompanyId, productId, colorId]>>
    simulationResult,  \* Absent or <<[dayImage, nightImage, recommendationText]>>
    isLoading,
    loadingText,
    error,             \* NULL or a message
    activeResultView,
    fabricData,        \* ProductType -> sequence of companies
    modified,          \* the catalogs (MOCK_DATA first) whose object holds
                       \* something else than when it was fabricData
    curtainStyle,
    clock,             \* the last value Date.now() returned
    runs,              \* the runs started so far, each with its closure and position
    events             \* the events handled so far

\* The state of the program and of its environment.
progVars == <<step, uploadedFile, productType, simulationMode, manualSelection,
              simulationResult, isLoading, loadingText, error, activeResultView,
              fabricData, modified, curtainStyle, clock, runs>>

vars == <<progVars, events>>

\* The catalog and the objects that held it.
catalog == <<fabricData, modified>>

\* The session fields a run, a navigation or a selection handler may touch.
sessionVars == <<step, uploadedFile, productType, simulationMode, manualSelection,
                 simulationResult, isLoading, loadingText, error, activeResultView,
                 curtainStyle>>

-----------------------------------------------------------------------------
\* Bounds of the model.

\* Runs started plus entries added to the catalog in one behaviour.
MaxOps == 2
\* Largest value the clock reaches.
MaxClock == 1
\* Events (user events and request completions) handled in one behaviour.
MaxEvents == 11
\* Events handled in one behaviour before the outstanding requests are left to
\* complete on their own.
MaxLiveEvents == 10

-----------------------------------------------------------------------------
\* Values.

NULL == "null"
Absent == << >>
Present(x) == <<x>>
Val(o) == o[1]

VerticalBlinds == "Vertical Blinds"
RollerBlinds == "Roller Blinds"
Curtains == "Curtains"
ProductType == {VerticalBlinds, RollerBlinds, Curtains}

SWave == "S-WAVE"
PinchPleat == "Pinch Pleat"
CurtainStyle == {SWave, PinchPleat}

Manual == "Manual"
Auto == "Auto"
SimulationMode == {Manual, Auto}

AppStep == {"upload", "select_product", "configure", "simulate", "result", "admin"}

\* The file the user uploads.
UploadedFiles ==
    { [base64 |-> "b64-window", name |-> "window.png", type |-> "image/png"] }

MOCK_DATA ==
    [t \in ProductType |->
        CASE t = VerticalBlinds ->
               << [id |-> "vb-fc1", name |-> "Sun-Kissed Fabrics", products |->
                    << [id |-> "vb-p1", name |-> "Classic Vinyl", colors |->
                         << [id |-> "vb-c1", name |-> "Alabaster White", hex |-> "#F0EBE3"],
                            [id |-> "vb-c2", name |-> "Urban Grey", hex |-> "#A9A9A9"],
                            [id |-> "vb-c3", name |-> "Coastal Beige", hex |-> "#EED9C4"] >>],
                       [id |-> "vb-p2", name |-> "Textured Weave", colors |->
                         << [id |-> "vb-c4", name |-> "Oatmeal", hex |-> "#D2B48C"],
                            [id |-> "vb-c5", name |-> "Charcoal", hex |-> "#36454F"] >>] >>] >>
          [] t = RollerBlinds ->
               << [id |-> "rb-fc1", name |-> "Modern Shade Co.", products |->
                    << [id |-> "rb-p1", name |-> "Blackout Pro", colors |->
                         << [id |-> "rb-c1", name |-> "Midnight Blue", hex |-> "#003366"],
                            [id |-> "rb-c2", name |-> "Pure White", hex |-> "#FFFFFF"],
                            [id |-> "rb-c3", name |-> "Slate Grey", hex |-> "#708090"] >>],
                       [id |-> "rb-p2", name |-> "Light-Filtering Linen", colors |->
                         << [id |-> "rb-c4", name |-> "Natural Linen", hex |-> "#FAF0E6"],
                            [id |-> "rb-c5", name |-> "Seafoam Green", hex |-> "#93E9BE"] >>] >>],
                  [id |-> "rb-fc2", name |-> "Eco Weaves", products |->
                    << [id |-> "rb-p3", name |-> "Recycled Fiber", colors |->
                         << [id |-> "rb-c6", name |-> "Earth Brown", hex |-> "#5C4033"],
                            [id |-> "rb-c7", name |-> "Forest Green", hex |-> "#228B22"] >>] >>] >>
          [] t = Curtains ->
               << [id |-> "c-fc1", name |-> "Drapery Dreams", products |->
                    << [id |-> "c-p1", name |-> "Velvet Luxe", colors |->
                         << [id |-> "c-c1", name |-> "Ruby Red", hex |-> "#9B111E"],
                            [id |-> "c-c2", name |-> "Emerald Green", hex |-> "#50C878"],
                            [id |-> "c-c3", name |-> "Royal Purple", hex |-> "#7851A9"] >>],
                       [id |-> "c-p2", name |-> "Sheer Elegance", colors |->
                         << [id |-> "c-c4", name |-> "Ivory Sheer", hex |-> "#FFFFF0"],
                            [id |-> "c-c5", name |-> "Champagne Glow", hex |-> "#F7E7CE"] >>] >>] >>]

-----------------------------------------------------------------------------
\* Catalog lookups.

\* Array.prototype.find by id: the index of the first entry with that id, 0 for
\* undefined.
FindIndex(seq, id) ==
    IF \E i \in 1..Len(seq) : seq[i].id = id
    THEN CHOOSE i \in 1..Len(seq) :
            seq[i].id = id /\ \A j \in 1..(i - 1) : seq[j].id # id
    ELSE 0

Ids(seq) == {seq[i].id : i \in 1..Len(seq)}

\* Companies, products and colors of a catalog, counted over all product types.
RECURSIVE SumOver(_, _)
SumOver(f, S) ==
    IF S = {} THEN 0
    ELSE LET x == CHOOSE y \in S : TRUE IN f[x] + SumOver(f, S \ {x})

CompanyEntries(data, t) ==
    Len(data[t])
    + SumOver([i \in 1..Len(data[t]) |-> Len(data[t][i].products)], 1..Len(data[t]))
    + SumOver([i \in 1..Len(data[t]) |->
                 SumOver([j \in 1..Len(data[t][i].products) |->
                            Len(data[t][i].products[j].colors)],
                         1..Len(data[t][i].products))],
              1..Len(data[t]))

CatalogEntries(data) == SumOver([t \in ProductType |-> CompanyEntries(data, t)], ProductType)

\* Entries added since construction.
Added == CatalogEntries(fabricData) - CatalogEntries(MOCK_DATA)

\* A behaviour starts another run or adds another entry within its bound.
WithinOps == Len(runs) + Added < MaxOps

-----------------------------------------------------------------------------
\* What the App renders: the controls that exist in a state.

\* renderContent's switch is reached only when the loader is not shown.
Shows(s) == ~isLoading /\ step = s

\* ConfigurationPanel is rendered with its controls.
ConfigurationPanelShown ==
    /\ Shows("configure")
    /\ productType # NULL
    /\ manualSelection # Absent
    /\ Len(fabricData[productType]) > 0

shouldShowBackButton == step # "upload" /\ ~isLoading
shouldShowResetButton == step # "upload" /\ ~isLoading /\ step # "admin"

-----------------------------------------------------------------------------
\* The state the first render of App leaves.
InitialState ==
    /\ step = "upload"
    /\ uploadedFile = Absent
    /\ productType = NULL
    /\ simulationMode = NULL
    /\ manualSelection = Absent
    /\ simulationResult = Absent
    /\ isLoading = FALSE
    /\ loadingText = ""
    /\ error = NULL
    /\ activeResultView = "day"
    /\ fabricData = MOCK_DATA
    /\ modified = {}
    /\ curtainStyle = SWave
    /\ clock = 0
    /\ runs = << >>

Init ==
    /\ InitialState
    /\ events = 0

\* Every handler call is one more event handled.
Handled == events < MaxEvents /\ events' = events + 1

-----------------------------------------------------------------------------
\* Navigation.

\* handleBack as it would be if going back from the result discarded the result.
handleBackDiscardsResult ==
    /\ events < MaxEvents /\ events' = events + 1
    /\ step # "upload" /\ ~isLoading
    /\ step' = IF step = "result" THEN "configure"
               ELSE IF step = "configure" THEN "select_product"
               ELSE IF step = "select_product" \/ step = "admin" THEN "upload"
               ELSE step
    /\ simulationResult' = IF step = "result" THEN Absent ELSE simulationResult
    /\ UNCHANGED <<uploadedFile, productType, simulationMode, manualSelection,
                   isLoading, loadingText, error, activeResultView,
                   catalog, curtainStyle, clock, runs>>

\* handleBack as it was before the admin step was added to its last branch.
BackTargetWithoutAdmin(s) ==
    IF s = "result" THEN "configure"
    ELSE IF s = "configure" THEN "select_product"
    ELSE IF s = "select_product" THEN "upload"
    ELSE s

\* The step handleBack sets from each step (no branch for upload and simulate).
BackTarget(s) ==
    IF s = "result" THEN "configure"
    ELSE IF s = "configure" THEN "select_product"
    ELSE IF s = "select_product" \/ s = "admin" THEN "upload"
    ELSE s

\* The back button.
handleBack ==
    /\ Handled
    /\ shouldShowBackButton
    /\ step' = BackTarget(step)
    /\ UNCHANGED <<uploadedFile, productType, simulationMode, manualSelection,
                   simulationResult, isLoading, loadingText, error, activeResultView,
                   catalog, curtainStyle, clock, runs>>

\* handleReset as it would be without its setError(null).
ResetEffectKeepsError ==
    /\ step' = "upload"
    /\ uploadedFile' = Absent
    /\ productType' = NULL
    /\ simulationMode' = NULL
    /\ manualSelection' = Absent
    /\ simulationResult' = Absent
    /\ isLoading' = FALSE
    /\ UNCHANGED <<error, loadingText, activeResultView, curtainStyle>>

\* handleReset as it would be without its setStep('upload').
ResetEffectKeepsStep ==
    /\ uploadedFile' = Absent
    /\ productType' = NULL
    /\ simulationMode' = NULL
    /\ manualSelection' = Absent
    /\ simulationResult' = Absent
    /\ isLoading' = FALSE
    /\ error' = NULL
    /\ UNCHANGED <<step, loadingText, activeResultView, curtainStyle>>

\* The state setters handleReset calls; loadingText, activeResultView, curtainStyle
\* and fabricData have no setter call in it.
ResetEffect ==
    /\ step' = "upload"
    /\ uploadedFile' = Absent
    /\ productType' = NULL
    /\ simulationMode' = NULL
    /\ manualSelection' = Absent
    /\ simulationResult' = Absent
    /\ isLoading' = FALSE
    /\ error' = NULL
    /\ UNCHANGED <<loadingText, activeResultView, curtainStyle>>

\* handleReset as it would be if it also called setFabricData(MOCK_DATA).
handleResetRestoresCatalog ==
    /\ events < MaxEvents /\ events' = events + 1
    /\ shouldShowResetButton
    /\ ResetEffect
    /\ fabricData' = MOCK_DATA
    /\ UNCHANGED <<modified, clock, runs>>

\* "Start Over" below the main card.
handleReset ==
    /\ Handled
    /\ shouldShowResetButton
    /\ ResetEffect
    /\ UNCHANGED <<catalog, clock, runs>>

\* The header's title: handleReset again, rendered in every state.
onLogoClick ==
    /\ Handled
    /\ ResetEffect
    /\ UNCHANGED <<catalog, clock, runs>>

\* The header's cog button, rendered in every state.
onAdminClick ==
    /\ Handled
    /\ step' = "admin"
    /\ UNCHANGED <<uploadedFile, productType, simulationMode, manualSelection,
                   simulationResult, isLoading, loadingText, error, activeResultView,
                   catalog, curtainStyle, clock, runs>>

\* The "x" of the error banner, rendered while error is truthy.
dismissError ==
    /\ Handled
    /\ error # NULL
    /\ error' = NULL
    /\ UNCHANGED <<step, uploadedFile, productType, simulationMode, manualSelection,
                   simulationResult, isLoading, loadingText, activeResultView,
                   catalog, curtainStyle, clock, runs>>

\* ImageUploader hands over a picked file or a captured photo.
handleImageUpload(file) ==
    /\ Handled
    /\ Shows("upload")
    /\ uploadedFile' = Present(file)
    /\ step' = "select_product"
    /\ UNCHANGED <<productType, simulationMode, manualSelection, simulationResult,
                   isLoading, loadingText, error, activeResultView, catalog,
                   curtainStyle, clock, runs>>

-----------------------------------------------------------------------------
\* Selection.

\* InitialPath as it would be if it took the last color of the first product.
InitialPathLastColor(companies) ==
    LET initialCompany == companies[1] IN
    IF Len(initialCompany.products) = 0 THEN [threw |-> TRUE]
    ELSE LET initialProduct == initialCompany.products[1] IN
         IF Len(initialProduct.colors) = 0 THEN [threw |-> TRUE]
         ELSE [threw |-> FALSE,
               selection |-> [fabricCompanyId |-> initialCompany.id,
                              productId |-> initialProduct.id,
                              colorId |-> initialProduct.colors[Len(initialProduct.colors)].id]]

\* The path handleProductSelect builds from the first company of a non-empty
\* bucket: [threw |-> TRUE] where it dereferences an undefined first product or
\* first color.
InitialPath(companies) ==
    LET initialCompany == companies[1] IN
    IF Len(initialCompany.products) = 0 THEN [threw |-> TRUE]
    ELSE LET initialProduct == initialCompany.products[1] IN
         IF Len(initialProduct.colors) = 0 THEN [threw |-> TRUE]
         ELSE [threw |-> FALSE,
               selection |-> [fabricCompanyId |-> initialCompany.id,
                              productId |-> initialProduct.id,
                              colorId |-> initialProduct.colors[1].id]]

\* manualSelection after handleProductSelect(type): set from the first path, set
\* to null for an empty bucket, and left alone when the handler throws (after it
\* has called setProductType and setStep).
SelectionAfterProductSelect(data, type, old) ==
    LET companies == data[type] IN
    IF Len(companies) > 0
    THEN LET path == InitialPath(companies) IN
         IF path.threw THEN old ELSE Present(path.selection)
    ELSE Absent

\* A product type button of ProductSelector.
handleProductSelect(type) ==
    /\ Handled
    /\ Shows("select_product")
    /\ productType' = type
    /\ step' = "configure"
    /\ manualSelection' = SelectionAfterProductSelect(fabricData, type, manualSelection)
    /\ UNCHANGED <<uploadedFile, simulationMode, simulationResult, isLoading,
                   loadingText, error, activeResultView, catalog, curtainStyle,
                   clock, runs>>

\* handleSelectionChange as it would be without its cascade: only the key is set.
SelectionChangeNoCascade(sel, companies, key, value) ==
    [threw |-> FALSE,
     selection |-> [fabricCompanyId |-> IF key = "fabricCompanyId" THEN value
                                        ELSE sel.fabricCompanyId,
                    productId |-> IF key = "productId" THEN value ELSE sel.productId,
                    colorId |-> IF key = "colorId" THEN value ELSE sel.colorId]]

\* handleSelectionChange as it would be if a color change went back to the first
\* product of the selected company.
SelectionChangeColorResetsProduct(sel, companies, key, value) ==
    LET ci == FindIndex(companies, IF key = "fabricCompanyId" THEN value
                                   ELSE sel.fabricCompanyId)
    IN  IF ci = 0 THEN [threw |-> TRUE]
        ELSE LET products == companies[ci].products
                 pi == IF key = "productId" THEN FindIndex(products, value)
                       ELSE IF Len(products) > 0 THEN 1 ELSE 0
             IN  IF pi = 0 THEN [threw |-> TRUE]
                 ELSE IF key # "colorId" /\ Len(products[pi].colors) = 0
                 THEN [threw |-> TRUE]
                 ELSE [threw |-> FALSE,
                       selection |-> [fabricCompanyId |-> companies[ci].id,
                                      productId |-> products[pi].id,
                                      colorId |-> IF key = "colorId" THEN value
                                                  ELSE products[pi].colors[1].id]]

\* handleSelectionChange(key, value) on selection sel with the bucket companies:
\* the selection it hands to setManualSelection, or [threw |-> TRUE] when it
\* dereferences undefined before that call.
SelectionChange(sel, companies, key, value) ==
    IF key = "fabricCompanyId"
    THEN LET ci == FindIndex(companies, value) IN
         IF ci = 0 THEN [threw |-> TRUE]
         ELSE IF Len(companies[ci].products) = 0 THEN [threw |-> TRUE]
         ELSE IF Len(companies[ci].products[1].colors) = 0 THEN [threw |-> TRUE]
         ELSE [threw |-> FALSE,
               selection |-> [fabricCompanyId |-> value,
                              productId |-> companies[ci].products[1].id,
                              colorId |-> companies[ci].products[1].colors[1].id]]
    ELSE IF key = "productId"
    THEN LET ci == FindIndex(companies, sel.fabricCompanyId) IN
         IF ci = 0 THEN [threw |-> TRUE]
         ELSE LET pi == FindIndex(companies[ci].products, value) IN
              IF pi = 0 THEN [threw |-> TRUE]
              ELSE IF Len(companies[ci].products[pi].colors) = 0 THEN [threw |-> TRUE]
              ELSE [threw |-> FALSE,
                    selection |-> [fabricCompanyId |-> sel.fabricCompanyId,
                                   productId |-> value,
                                   colorId |-> companies[ci].products[pi].colors[1].id]]
    ELSE [threw |-> FALSE,
          selection |-> [fabricCompanyId |-> sel.fabricCompanyId,
                         productId |-> sel.productId,
                         colorId |-> value]]

\* The values ConfigurationPanel offers for a key: the options of the company
\* select, the options of the product select (rendered when the selected company
\* resolves), the color buttons (rendered when the selected product resolves).
Offered(sel, companies, key) ==
    LET ci == FindIndex(companies, sel.fabricCompanyId)
        pi == IF ci = 0 THEN 0 ELSE FindIndex(companies[ci].products, sel.productId)
    IN  IF key = "fabricCompanyId" THEN Ids(companies)
        ELSE IF key = "productId"
        THEN IF ci = 0 THEN {} ELSE Ids(companies[ci].products)
        ELSE IF pi = 0 THEN {} ELSE Ids(companies[ci].products[pi].colors)

SelectionKeys == {"fabricCompanyId", "productId", "colorId"}

\* The values offered in the current state: none while the panel is not shown.
OfferedNow(key) ==
    IF ConfigurationPanelShown
    THEN Offered(Val(manualSelection), fabricData[productType], key)
    ELSE {}

handleSelectionChange(key, value) ==
    /\ Handled
    /\ ConfigurationPanelShown
    /\ value \in OfferedNow(key)
    /\ LET r == SelectionChange(Val(manualSelection), fabricData[productType], key, value)
       IN  manualSelection' = IF r.threw THEN manualSelection ELSE Present(r.selection)
    /\ UNCHANGED <<step, uploadedFile, productType, simulationMode, simulationResult,
                   isLoading, loadingText, error, activeResultView, catalog,
                   curtainStyle, clock, runs>>

\* The two curtain style buttons, rendered for Curtains only.
setCurtainStyle(style) ==
    /\ Handled
    /\ ConfigurationPanelShown
    /\ productType = Curtains
    /\ curtainStyle' = style
    /\ UNCHANGED <<step, uploadedFile, productType, simulationMode, manualSelection,
                   simulationResult, isLoading, loadingText, error, activeResultView,
                   catalog, clock, runs>>

\* The view toggles of ResultView: Original always, Day and Night when the
\* result holds that image.
ResultViews == {"day", "night", "original"}

ViewButtons(result) ==
    {"original"} \cup (IF result.dayImage # NULL THEN {"day"} ELSE {})
                 \cup (IF result.nightImage # NULL THEN {"night"} ELSE {})

setActiveView(view) ==
    /\ Handled
    /\ Shows("result")
    /\ simulationResult # Absent
    /\ view \in ViewButtons(Val(simulationResult))
    /\ activeResultView' = view
    /\ UNCHANGED <<step, uploadedFile, productType, simulationMode, manualSelection,
                   simulationResult, isLoading, loadingText, error, catalog,
                   curtainStyle, clock, runs>>

-----------------------------------------------------------------------------
\* The admin panel.

\* The tabs the user opens in the admin panel.
AdminTabs == {Curtains}

\* What the user types into the company name input.
NameInputs == {"", "  ", "Acme Shades"}

\* handleAddCompany's test as it would be without the trim.
TrimKeepsBlanks(s) == s

\* String.prototype.trim on the inputs of the model: a string of white space
\* becomes empty, the other inputs carry no white space at their ends.
Trim(s) == IF s \in {"", " ", "  "} THEN "" ELSE s

\* What prompt() returns: null when cancelled, else the text typed.
ProductNameAnswers == {NULL, "", "Linen Weave"}
ColorNameAnswers == {NULL, "", "Sand"}
ColorHexAnswers == {NULL, "", "#C2B280"}

\* !answer for a prompt's result.
Falsy(answer) == answer = NULL \/ answer = ""

\* The template literals that build the ids from Date.now().
CompanyId(t) == "fc-" \o ToString(t)
ProductId(t) == "p-" \o ToString(t)
ColorId(t) == "c-" \o ToString(t)

\* handleAddCompany as it would be if it put the company first (unshift).
AddCompanyFirst(data, tab, company) ==
    [data EXCEPT ![tab] = <<company>> \o @]

\* The catalog handleAddCompany passes to setFabricData.
AddCompany(data, tab, company) ==
    [data EXCEPT ![tab] = Append(@, company)]

\* The catalog handleAddProduct passes to setFabricData; it throws on
\* company.products when the company is not found.
AddProduct(data, tab, companyId, product) ==
    LET ci == FindIndex(data[tab], companyId) IN
    IF ci = 0 THEN [threw |-> TRUE]
    ELSE [threw |-> FALSE,
          data |-> [data EXCEPT ![tab][ci].products = Append(@, product)]]

\* handleAddColor as it would be if it fell back to the company's first product
\* when the product is not found.
AddColorFallsBack(data, tab, companyId, productId, color) ==
    LET ci == FindIndex(data[tab], companyId) IN
    IF ci = 0 THEN [threw |-> TRUE]
    ELSE LET found == FindIndex(data[tab][ci].products, productId)
             pi == IF found = 0 /\ Len(data[tab][ci].products) > 0 THEN 1 ELSE found
         IN  IF pi = 0 THEN [threw |-> TRUE]
             ELSE [threw |-> FALSE,
                   data |-> [data EXCEPT ![tab][ci].products[pi].colors = Append(@, color)]]

\* The catalog handleAddColor passes to setFabricData; it throws when the company
\* or the product is not found.
AddColor(data, tab, companyId, productId, color) ==
    LET ci == FindIndex(data[tab], companyId) IN
    IF ci = 0 THEN [threw |-> TRUE]
    ELSE LET pi == FindIndex(data[tab][ci].products, productId) IN
         IF pi = 0 THEN [threw |-> TRUE]
         ELSE [threw |-> FALSE,
               data |-> [data EXCEPT ![tab][ci].products[pi].colors = Append(@, color)]]

\* What the object a handler received as fabricData holds once the handler has
\* run, as it would be if the handler pushed into that object's own arrays
\* (a shallow copy of the root).
ArgumentAfterInPlace(data, newData) == newData

\* What the object a handler received as fabricData holds once the handler has
\* run: the handlers push into JSON.parse(JSON.stringify(fabricData)), which
\* shares no array or object with fabricData, so it holds what it held.
ArgumentAfter(data, newData) == data

\* The object that was fabricData when the handler ran (the MOCK_DATA object
\* of the module until the first addition, useState(MOCK_DATA)), once
\* fabricData' is what the handler passes to setFabricData.
setFabricData ==
    modified' = IF ArgumentAfter(fabricData, fabricData') = fabricData
                THEN modified
                ELSE modified \cup {fabricData}

\* AdminPanel keeps the tab (activeTab) and the text of the name input
\* (newItemName) as its own state, which only its add handlers read: the tab the
\* user has clicked and the text typed before the click are inputs of the handler.

\* "Add Company".
handleAddCompany(activeTab, newItemName) ==
    /\ Handled
    /\ Shows("admin")
    /\ IF Trim(newItemName) = ""
       THEN UNCHANGED progVars
       ELSE /\ WithinOps
            /\ \E t \in clock..MaxClock :
                 /\ clock' = t
                 /\ fabricData' = AddCompany(fabricData, activeTab,
                                             [id |-> CompanyId(t), name |-> newItemName,
                                              products |-> << >>])
            /\ setFabricData
            /\ UNCHANGED <<sessionVars, runs>>

\* handleAddProduct(companyId) with the AdminPanel on tab activeTab and the
\* prompt answered productName (null when cancelled).
addProductNamed(activeTab, companyId, productName) ==
    /\ Handled
    /\ Shows("admin")
    /\ IF Falsy(productName)
       THEN UNCHANGED progVars
       ELSE /\ WithinOps
            /\ \E t \in clock..MaxClock :
                 LET r == AddProduct(fabricData, activeTab, companyId,
                                     [id |-> ProductId(t), name |-> productName,
                                      colors |-> << >>])
                 IN  /\ clock' = t
                     /\ fabricData' = IF r.threw THEN fabricData ELSE r.data
            /\ setFabricData
            /\ UNCHANGED <<sessionVars, runs>>

\* handleAddProduct(companyId) with the AdminPanel on tab activeTab.
addProduct(activeTab, companyId) ==
    \E productName \in ProductNameAnswers :
        addProductNamed(activeTab, companyId, productName)

\* "+ Add Product" under a listed company.
handleAddProduct(activeTab, companyId) ==
    /\ companyId \in Ids(fabricData[activeTab])
    /\ addProduct(activeTab, companyId)

\* handleAddColor(companyId, productId) with the AdminPanel on tab activeTab and
\* the prompts answered colorName and colorHex (null when cancelled; the second
\* prompt is not shown when the first answer is falsy).
addColorNamed(activeTab, companyId, productId, colorName, colorHex) ==
    /\ Handled
    /\ Shows("admin")
    /\ IF Falsy(colorName) \/ Falsy(colorHex)
       THEN UNCHANGED progVars
       ELSE /\ WithinOps
            /\ \E t \in clock..MaxClock :
                 LET r == AddColor(fabricData, activeTab, companyId, productId,
                                   [id |-> ColorId(t), name |-> colorName,
                                    hex |-> colorHex])
                 IN  /\ clock' = t
                     /\ fabricData' = IF r.threw THEN fabricData ELSE r.data
            /\ setFabricData
            /\ UNCHANGED <<sessionVars, runs>>

\* handleAddColor(companyId, productId) with the AdminPanel on tab activeTab.
addColor(activeTab, companyId, productId) ==
    \E colorName \in ColorNameAnswers, colorHex \in ColorHexAnswers :
        addColorNamed(activeTab, companyId, productId, colorName, colorHex)

\* "+ Add Color" under a listed product.
handleAddColor(activeTab, companyId, productId) ==
    /\ \E ci \in 1..Len(fabricData[activeTab]) :
         /\ fabricData[activeTab][ci].id = companyId
         /\ productId \in Ids(fabricData[activeTab][ci].products)
    /\ addColor(activeTab, companyId, productId)

-----------------------------------------------------------------------------
\* The remote service (services/geminiService).

RecommendationLabel == "Generating AI recommendation..."
DayLabel == "Simulating daytime view..."
NightLabel == "Simulating nighttime view..."

ProductDetailsError == "Could not find product details."
NoImageError == "AI did not return an image. It may have refused the request."
RecommendationFailure == "Failed to get a recommendation from the AI. Please try again."
SimulationFailure(isDay) ==
    IF isDay
    THEN "Failed to generate the day simulation. The AI might be unable to process this image."
    ELSE "Failed to generate the night simulation. The AI might be unable to process this image."

\* What the model call of a composite request comes back with: a response with
\* an image part, a response without one, or a rejection.
CompositeResponses == {"image", "no_image", "rejected"}
\* What the model call of a recommendation request comes back with.
RecommendationResponses == {"text", "rejected"}

\* The payload of the image part returned to request isDay of run r.
ImageData(r, isDay) == "png-" \o ToString(r) \o (IF isDay THEN "-day" ELSE "-night")
\* response.text of the recommendation returned to run r.
RecommendationText(r) == "advice-" \o ToString(r)

\* simulateWindowCovering: returns the data of the image part; the error thrown
\* for a response without an image part is thrown inside the try block, so the
\* catch block replaces it, as it replaces a rejection, by the one message.
simulateWindowCovering(r, isDay, response) ==
    LET inner == IF response = "image" THEN [ok |-> TRUE, value |-> ImageData(r, isDay)]
                 ELSE IF response = "no_image" THEN [ok |-> FALSE, message |-> NoImageError]
                 ELSE [ok |-> FALSE, message |-> "rejected"]
    IN  IF inner.ok THEN inner ELSE [ok |-> FALSE, message |-> SimulationFailure(isDay)]

generateRecommendation(r, response) ==
    IF response = "text" THEN [ok |-> TRUE, value |-> RecommendationText(r)]
    ELSE [ok |-> FALSE, message |-> RecommendationFailure]

-----------------------------------------------------------------------------
\* Runs.  A run record holds what the async function closed over when it was
\* called, the requests it has issued, how many of them have come back, and pc:
\* the request it awaits, or "done".

RecommendationRequest(run) ==
    [fn |-> "generateRecommendation",
     imageBase64 |-> run.uploadedFile.base64,
     imageMimeType |-> run.uploadedFile.type,
     productType |-> run.productType]

CompositeRequest(run, isDay) ==
    [fn |-> "simulateWindowCovering",
     imageBase64 |-> run.uploadedFile.base64,
     imageMimeType |-> run.uploadedFile.type,
     productType |-> run.productType,
     colorName |-> run.colorName,
     productName |-> run.productName,
     isDay |-> isDay,
     curtainStyle |-> run.curtainStyle]

\* The find chain as it would be if runManualSimulation tested !product only.
ResolveSelectionIgnoresColor(data, type, sel) ==
    LET companies == data[type]
        ci == FindIndex(companies, sel.fabricCompanyId)
        pi == IF ci = 0 THEN 0 ELSE FindIndex(companies[ci].products, sel.productId)
        ki == IF pi = 0 THEN 0 ELSE FindIndex(companies[ci].products[pi].colors, sel.colorId)
    IN  IF pi = 0 THEN [found |-> FALSE]
        ELSE [found |-> TRUE,
              product |-> companies[ci].products[pi],
              color |-> IF ki = 0 THEN [id |-> sel.colorId, name |-> "undefined", hex |-> ""]
                        ELSE companies[ci].products[pi].colors[ki]]

\* The color and product runManualSimulation resolves the selection to:
\* found is FALSE when !color || !product.
ResolveSelection(data, type, sel) ==
    LET companies == data[type]
        ci == FindIndex(companies, sel.fabricCompanyId)
        pi == IF ci = 0 THEN 0 ELSE FindIndex(companies[ci].products, sel.productId)
        ki == IF pi = 0 THEN 0 ELSE FindIndex(companies[ci].products[pi].colors, sel.colorId)
    IN  IF ki = 0 THEN [found |-> FALSE]
        ELSE [found |-> TRUE,
              product |-> companies[ci].products[pi],
              color |-> companies[ci].products[pi].colors[ki]]

\* runManualSimulation as it would be if it passed product.name for the color
\* and color.name for the product.
ManualRunSwapsNames(file, type, resolved, style) ==
    LET closure == [kind |-> "manual", uploadedFile |-> file, productType |-> type,
                    colorName |-> resolved.product.name,
                    productName |-> resolved.color.name,
                    curtainStyle |-> style]
    IN  [closure |-> closure, pc |-> "day",
         requests |-> <<CompositeRequest(closure, TRUE)>>, resolved |-> 0,
         recommendation |-> NULL, dayImage |-> NULL]

\* runManualSimulation as it would be if it issued both composite requests at
\* once and awaited them together.
ManualRunConcurrent(file, type, resolved, style) ==
    LET closure == [kind |-> "manual", uploadedFile |-> file, productType |-> type,
                    colorName |-> resolved.color.name,
                    productName |-> resolved.product.name,
                    curtainStyle |-> style]
    IN  [closure |-> closure, pc |-> "day",
         requests |-> <<[fn |-> "simulateWindowCovering", isDay |-> TRUE],
                        [fn |-> "simulateWindowCovering", isDay |-> FALSE]>>,
         resolved |-> 0, recommendation |-> NULL, dayImage |-> NULL]

\* The run runManualSimulation begins, up to its first await.
ManualRun(file, type, resolved, style) ==
    LET closure == [kind |-> "manual", uploadedFile |-> file, productType |-> type,
                    colorName |-> resolved.color.name,
                    productName |-> resolved.product.name,
                    curtainStyle |-> style]
    IN  [closure |-> closure, pc |-> "day",
         requests |-> <<CompositeRequest(closure, TRUE)>>, resolved |-> 0,
         recommendation |-> NULL, dayImage |-> NULL]

\* runAutoSimulation as it would be if it named the color and product of the
\* current manual selection in its composite requests.
AutoRunUsesSelection(file, type, style) ==
    LET resolved == IF manualSelection = Absent THEN [found |-> FALSE]
                    ELSE ResolveSelection(fabricData, type, Val(manualSelection))
        closure == [kind |-> "auto", uploadedFile |-> file, productType |-> type,
                    colorName |-> IF resolved.found THEN resolved.color.name
                                  ELSE "AI suggested color",
                    productName |-> IF resolved.found THEN resolved.product.name
                                    ELSE "AI suggested style",
                    curtainStyle |-> IF type = Curtains THEN style ELSE NULL]
    IN  [closure |-> closure, pc |-> "recommendation",
         requests |-> <<RecommendationRequest(closure)>>, resolved |-> 0,
         recommendation |-> NULL, dayImage |-> NULL]

\* The run runAutoSimulation begins, up to its first await.
AutoRun(file, type, style) ==
    LET closure == [kind |-> "auto", uploadedFile |-> file, productType |-> type,
                    colorName |-> "AI suggested color",
                    productName |-> "AI suggested style",
                    curtainStyle |-> IF type = Curtains THEN style ELSE NULL]
    IN  [closure |-> closure, pc |-> "recommendation",
         requests |-> <<RecommendationRequest(closure)>>, resolved |-> 0,
         recommendation |-> NULL, dayImage |-> NULL]

\* "Simulate Now".
runManualSimulation ==
    /\ Handled
    /\ ConfigurationPanelShown
    /\ IF uploadedFile = Absent \/ productType = NULL \/ manualSelection = Absent
       THEN UNCHANGED progVars
       ELSE LET resolved == ResolveSelection(fabricData, productType, Val(manualSelection)) IN
            IF ~resolved.found
            THEN /\ error' = ProductDetailsError
                 /\ isLoading' = FALSE
                 /\ step' = "configure"
                 /\ simulationResult' = Absent
                 /\ UNCHANGED <<uploadedFile, productType, simulationMode, manualSelection,
                                loadingText, activeResultView, catalog, curtainStyle,
                                clock, runs>>
            ELSE /\ WithinOps
                 /\ isLoading' = TRUE
                 /\ step' = "simulate"
                 /\ simulationResult' = Absent
                 /\ loadingText' = DayLabel
                 /\ runs' = Append(runs, ManualRun(Val(uploadedFile), productType,
                                                   resolved, curtainStyle))
                 /\ UNCHANGED <<uploadedFile, productType, simulationMode, manualSelection,
                                error, activeResultView, catalog, curtainStyle, clock>>

\* The mode buttons as they would be if runAutoSimulation raised the loading flag
\* and set the step before it tested its precondition.
handleModeSelectLoadsFirst(mode) ==
    /\ events < MaxEvents /\ events' = events + 1
    /\ ConfigurationPanelShown
    /\ simulationMode' = mode
    /\ IF mode = Auto /\ uploadedFile # Absent /\ productType # NULL
       THEN /\ Len(runs) + Added < MaxOps
            /\ isLoading' = TRUE
            /\ step' = "simulate"
            /\ simulationResult' = Absent
            /\ loadingText' = RecommendationLabel
            /\ runs' = Append(runs, AutoRun(Val(uploadedFile), productType, curtainStyle))
       ELSE IF mode = Auto
       THEN /\ isLoading' = TRUE
            /\ step' = "simulate"
            /\ simulationResult' = Absent
            /\ UNCHANGED <<loadingText, runs>>
       ELSE UNCHANGED <<isLoading, step, simulationResult, loadingText, runs>>
    /\ UNCHANGED <<uploadedFile, productType, manualSelection, error, activeResultView,
                   catalog, curtainStyle, clock>>

\* The two mode buttons: Auto calls runAutoSimulation.
handleModeSelect(mode) ==
    /\ Handled
    /\ ConfigurationPanelShown
    /\ simulationMode' = mode
    /\ IF mode = Auto /\ uploadedFile # Absent /\ productType # NULL
       THEN /\ WithinOps
            /\ isLoading' = TRUE
            /\ step' = "simulate"
            /\ simulationResult' = Absent
            /\ loadingText' = RecommendationLabel
            /\ runs' = Append(runs, AutoRun(Val(uploadedFile), productType, curtainStyle))
       ELSE UNCHANGED <<isLoading, step, simulationResult, loadingText, runs>>
    /\ UNCHANGED <<uploadedFile, productType, manualSelection, error, activeResultView,
                   catalog, curtainStyle, clock>>

\* A run that has ended: nothing of it is read again.
Done == [pc |-> "done"]

\* The catch block as it would be without its setStep('configure').
RunFailsKeepsStep(r, message) ==
    /\ error' = message
    /\ isLoading' = FALSE
    /\ runs' = [runs EXCEPT ![r] = [pc |-> "done"]]
    /\ UNCHANGED <<step, simulationResult, loadingText, activeResultView>>

\* The catch block as it would be with neither its setStep('configure') nor the
\* finally block's setIsLoading(false).
RunFailsStaysLoading(r, message) ==
    /\ error' = message
    /\ runs' = [runs EXCEPT ![r] = [pc |-> "done"]]
    /\ UNCHANGED <<step, isLoading, simulationResult, loadingText, activeResultView>>

\* The catch and finally blocks of a run.
RunFails(r, message) ==
    /\ error' = message
    /\ step' = "configure"
    /\ isLoading' = FALSE
    /\ runs' = [runs EXCEPT ![r] = Done]
    /\ UNCHANGED <<simulationResult, loadingText, activeResultView>>

\* The run's code after the recommendation request resolved as it would be if
\* the text returned were not kept for the result.
RecommendationResolvesDropsText(r, response) ==
    LET got == generateRecommendation(r, response) IN
    IF got.ok
    THEN /\ loadingText' = DayLabel
         /\ runs' = [runs EXCEPT ![r].pc = "day",
                                 ![r].recommendation = "",
                                 ![r].resolved = @ + 1,
                                 ![r].requests = Append(@, CompositeRequest(runs[r].closure, TRUE))]
         /\ UNCHANGED <<step, isLoading, error, simulationResult, activeResultView>>
    ELSE /\ error' = got.message
         /\ step' = "configure"
         /\ isLoading' = FALSE
         /\ runs' = [runs EXCEPT ![r] = [pc |-> "done"]]
         /\ UNCHANGED <<simulationResult, loadingText, activeResultView>>

\* The run's code after the recommendation request resolved.
RecommendationResolves(r, response) ==
    LET got == generateRecommendation(r, response) IN
    IF got.ok
    THEN /\ loadingText' = DayLabel
         /\ runs' = [runs EXCEPT ![r].pc = "day",
                                 ![r].recommendation = got.value,
                                 ![r].resolved = @ + 1,
                                 ![r].requests = Append(@, CompositeRequest(runs[r].closure, TRUE))]
         /\ UNCHANGED <<step, isLoading, error, simulationResult, activeResultView>>
    ELSE RunFails(r, got.message)

\* The run's code after the day request resolved.
DayResolves(r, response) ==
    LET got == simulateWindowCovering(r, TRUE, response) IN
    IF got.ok
    THEN /\ loadingText' = NightLabel
         /\ runs' = [runs EXCEPT ![r].pc = "night",
                                 ![r].dayImage = got.value,
                                 ![r].resolved = @ + 1,
                                 ![r].requests = Append(@, CompositeRequest(runs[r].closure, FALSE))]
         /\ UNCHANGED <<step, isLoading, error, simulationResult, activeResultView>>
    ELSE RunFails(r, got.message)

\* The run's code after the night request resolved as it would be if the loading
\* flag were lowered in the catch block only.
NightResolvesStaysLoading(r, response) ==
    LET got == simulateWindowCovering(r, FALSE, response) IN
    IF got.ok
    THEN /\ simulationResult' = Present([dayImage |-> runs[r].dayImage,
                                         nightImage |-> got.value,
                                         recommendationText |-> runs[r].recommendation])
         /\ step' = "result"
         /\ activeResultView' = "day"
         /\ runs' = [runs EXCEPT ![r] = [pc |-> "done"]]
         /\ UNCHANGED <<isLoading, loadingText, error>>
    ELSE /\ error' = got.message
         /\ step' = "configure"
         /\ isLoading' = FALSE
         /\ runs' = [runs EXCEPT ![r] = [pc |-> "done"]]
         /\ UNCHANGED <<simulationResult, loadingText, activeResultView>>

\* The run's code after the night request resolved as it would be without its
\* setActiveResultView('day').
NightResolvesKeepsView(r, response) ==
    LET got == simulateWindowCovering(r, FALSE, response) IN
    IF got.ok
    THEN /\ simulationResult' = Present([dayImage |-> runs[r].dayImage,
                                         nightImage |-> got.value,
                                         recommendationText |-> runs[r].recommendation])
         /\ step' = "result"
         /\ isLoading' = FALSE
         /\ runs' = [runs EXCEPT ![r] = [pc |-> "done"]]
         /\ UNCHANGED <<activeResultView, loadingText, error>>
    ELSE /\ error' = got.message
         /\ step' = "configure"
         /\ isLoading' = FALSE
         /\ runs' = [runs EXCEPT ![r] = [pc |-> "done"]]
         /\ UNCHANGED <<simulationResult, loadingText, activeResultView>>

\* The run's code after the night request resolved.
NightResolves(r, response) ==
    LET got == simulateWindowCovering(r, FALSE, response) IN
    IF got.ok
    THEN /\ simulationResult' = Present([dayImage |-> runs[r].dayImage,
                                         nightImage |-> got.value,
                                         recommendationText |-> runs[r].recommendation])
         /\ step' = "result"
         /\ activeResultView' = "day"
         /\ isLoading' = FALSE
         /\ runs' = [runs EXCEPT ![r] = Done]
         /\ UNCHANGED <<loadingText, error>>
    ELSE RunFails(r, got.message)

\* The outstanding request of run r resolves and the run goes on to its next
\* await or to its end.
Resumes(r, response) ==
    /\ r \in 1..Len(runs)
    /\ runs[r].pc # "done"
    /\ IF runs[r].pc = "recommendation"
       THEN response \in RecommendationResponses /\ RecommendationResolves(r, response)
       ELSE /\ response \in CompositeResponses
            /\ IF runs[r].pc = "day" THEN DayResolves(r, response)
                                     ELSE NightResolves(r, response)
    /\ UNCHANGED <<uploadedFile, productType, simulationMode, manualSelection,
                   catalog, curtainStyle, clock>>

\* A request comes back, counted among the events.
requestResolves(r, response) ==
    /\ Handled
    /\ Resumes(r, response)

-----------------------------------------------------------------------------
Next ==
    \/ handleBack
    \/ handleReset
    \/ onLogoClick
    \/ onAdminClick
    \/ dismissError
    \/ \E file \in UploadedFiles : handleImageUpload(file)
    \/ \E type \in ProductType : handleProductSelect(type)
    \/ \E key \in SelectionKeys :
         \E value \in OfferedNow(key) :
           handleSelectionChange(key, value)
    \/ \E style \in CurtainStyle : setCurtainStyle(style)
    \/ \E view \in ResultViews : setActiveView(view)
    \/ \E activeTab \in AdminTabs, newItemName \in NameInputs :
         handleAddCompany(activeTab, newItemName)
    \/ \E activeTab \in AdminTabs :
         \E companyId \in Ids(fabricData[activeTab]) :
           handleAddProduct(activeTab, companyId)
    \/ \E activeTab \in AdminTabs :
         \E ci \in 1..Len(fabricData[activeTab]) :
           \E pi \in 1..Len(fabricData[activeTab][ci].products) :
             handleAddColor(activeTab, fabricData[activeTab][ci].id,
                            fabricData[activeTab][ci].products[pi].id)
    \/ runManualSimulation
    \/ \E mode \in SimulationMode : handleModeSelect(mode)
    \/ \E r \in 1..Len(runs) :
         \E response \in CompositeResponses \cup RecommendationResponses :
           requestResolves(r, response)

Spec == Init /\ [][Next]_vars

\* Once the events are used up the user does nothing more, and the requests
\* still outstanding come back all the same.
lateResolves(r, response) ==
    /\ events = MaxEvents
    /\ Resumes(r, response)
    /\ UNCHANGED events

LiveNext ==
    \/ Next
    \/ \E r \in 1..Len(runs) :
         \E response \in CompositeResponses \cup RecommendationResponses :
           lateResolves(r, response)

\* Every outstanding request eventually resolves or fails.
RequestsResolve ==
    \A r \in 1..MaxOps :
        WF_vars(\E response \in CompositeResponses \cup RecommendationResponses :
                    requestResolves(r, response) \/ lateResolves(r, response))

\* The MaxLiveEvents events that remain are the user's and the completions
\* between them.
LiveInit ==
    /\ InitialState
    /\ events = MaxEvents - MaxLiveEvents

LiveSpec == LiveInit /\ [][LiveNext]_vars /\ RequestsResolve

-----------------------------------------------------------------------------
\* runManualSimulation on any selection.  The selections the screens produce
\* always resolve in the catalog, so the branch of runManualSimulation for a
\* selection that does not resolve is exercised by handing the handler a
\* configure screen whose selection is drawn from the ids of the bucket and
\* from ids that are in no bucket.

ProductIds(companies) ==
    UNION {Ids(companies[ci].products) : ci \in 1..Len(companies)}

ColorIds(companies) ==
    UNION {UNION {Ids(companies[ci].products[pi].colors) :
                    pi \in 1..Len(companies[ci].products)} :
             ci \in 1..Len(companies)}

SelectionInputs(companies) ==
    [fabricCompanyId : Ids(companies) \cup {"fc-gone"},
     productId : ProductIds(companies) \cup {"p-gone"},
     colorId : ColorIds(companies) \cup {"c-gone"}]

ManualInit ==
    /\ step = "configure"
    /\ uploadedFile \in {Present(file) : file \in UploadedFiles}
    /\ productType \in ProductType
    /\ simulationMode = NULL
    /\ fabricData = MOCK_DATA
    /\ modified = {}
    /\ manualSelection \in {Present(sel) : sel \in SelectionInputs(fabricData[productType])}
    /\ simulationResult = Absent
    /\ isLoading = FALSE
    /\ loadingText = ""
    /\ error = NULL
    /\ activeResultView = "day"
    /\ curtainStyle \in CurtainStyle
    /\ clock = 0
    /\ runs = << >>
    /\ events = 0

ManualNext ==
    \/ runManualSimulation
    \/ \E r \in 1..Len(runs) :
         \E response \in CompositeResponses \cup RecommendationResponses :
           requestResolves(r, response)

ManualSpec == ManualInit /\ [][ManualNext]_vars

-----------------------------------------------------------------------------
\* The add handlers on any ids.  The admin panel renders its "+ Add Product" and
\* "+ Add Color" buttons from the catalog, so the handlers are only ever called
\* with ids that resolve; what they do with ids that do not is exercised by
\* calling them with the ids of the bucket and with ids that are in no bucket.

CompanyIdInputs(tab) == Ids(fabricData[tab]) \cup {"fc-gone"}

ProductIdInputs(tab) == ProductIds(fabricData[tab]) \cup {"p-gone"}

CatalogNext ==
    \/ onAdminClick
    \/ \E activeTab \in AdminTabs, newItemName \in NameInputs :
         handleAddCompany(activeTab, newItemName)
    \/ \E activeTab \in AdminTabs :
         \E companyId \in CompanyIdInputs(activeTab) :
           addProduct(activeTab, companyId)
    \/ \E activeTab \in AdminTabs :
         \E companyId \in CompanyIdInputs(activeTab) :
           \E productId \in ProductIdInputs(activeTab) :
             addColor(activeTab, companyId, productId)

CatalogSpec == Init /\ [][CatalogNext]_vars

-----------------------------------------------------------------------------
\* ResultView on any result.  A successful run stores both images, so the
\* fallbacks of displayedImage are taken for results no run produces; here the
\* result, the view and the product type are any.

\* The template literal of a data URL.
DataUrl(mimeType, base64) == "data:" \o mimeType \o ";base64," \o base64

\* The originalImage prop renderContent passes to ResultView; the optional
\* chaining gives undefined for both parts when there is no file.
originalImage ==
    IF uploadedFile = Absent THEN DataUrl("undefined", "undefined")
    ELSE DataUrl(Val(uploadedFile).type, Val(uploadedFile).base64)

\* displayedImage as it would be if the night view had no fallback.
displayedImageNoFallback(activeView, result, original) ==
    IF activeView = "day"
    THEN (IF Falsy(result.dayImage) THEN original
          ELSE DataUrl("image/png", result.dayImage))
    ELSE IF activeView = "night"
    THEN DataUrl("image/png", result.nightImage)
    ELSE original

\* The src of the image ResultView shows (useMemo): the tests are truthiness
\* tests of result.dayImage and result.nightImage.
displayedImage(activeView, result, original) ==
    IF activeView = "day"
    THEN (IF Falsy(result.dayImage) THEN original
          ELSE DataUrl("image/png", result.dayImage))
    ELSE IF activeView = "night"
    THEN (IF Falsy(result.nightImage) THEN original
          ELSE DataUrl("image/png", result.nightImage))
    ELSE original

\* The results ResultView may be given: each field a string or null.
ResultInputs ==
    [dayImage : {NULL, ImageData(1, TRUE)},
     nightImage : {NULL, ImageData(1, FALSE)},
     recommendationText : {NULL, RecommendationText(1)}]

ResultInit ==
    /\ step = "result"
    /\ uploadedFile \in {Present(file) : file \in UploadedFiles}
    /\ productType \in ProductType
    /\ simulationMode \in SimulationMode
    /\ fabricData = MOCK_DATA
    /\ modified = {}
    /\ manualSelection = Present(InitialPath(fabricData[productType]).selection)
    /\ simulationResult \in {Present(result) : result \in ResultInputs}
    /\ isLoading = FALSE
    /\ loadingText = ""
    /\ error = NULL
    /\ activeResultView \in ResultViews
    /\ curtainStyle = SWave
    /\ clock = 0
    /\ runs = << >>
    /\ events = 0

ResultNext == \E view \in ResultViews : setActiveView(view)

ResultSpec == ResultInit /\ [][ResultNext]_vars

-----------------------------------------------------------------------------
\* Properties.

\* sel is a root-to-leaf path of the bucket companies.
IsPath(companies, sel) ==
    \E ci \in 1..Len(companies) :
        /\ companies[ci].id = sel.fabricCompanyId
        /\ \E pi \in 1..Len(companies[ci].products) :
             /\ companies[ci].products[pi].id = sel.productId
             /\ \E ki \in 1..Len(companies[ci].products[pi].colors) :
                  companies[ci].products[pi].colors[ki].id = sel.colorId

\* The session fields other than the step, the selection and the catalog.
otherFields == <<uploadedFile, productType, simulationMode, simulationResult,
                 isLoading, loadingText, error, activeResultView, curtainStyle>>

\* C1: in every reachable state the manual selection is absent, or the product
\* type is set and the selection names a company of that type's bucket, a
\* product of that company and a color of that product.
C1_SelectionIsCatalogPath ==
    manualSelection # Absent =>
        /\ productType # NULL
        /\ IsPath(fabricData[productType], Val(manualSelection))

\* A selection whose color was added through the admin panel.
C1_Witness ==
    /\ manualSelection # Absent
    /\ Val(manualSelection).colorId \in {ColorId(t) : t \in 0..MaxClock}

\* C2: choosing any company offered by the company select, companies added in
\* the admin panel included, sets the selection to that company, its first
\* product and that product's first color.
C2_CompanyChangeCascades ==
    [][ConfigurationPanelShown =>
        \A c \in OfferedNow("fabricCompanyId") :
            handleSelectionChange("fabricCompanyId", c) =>
                LET companies == fabricData[productType]
                    ci == FindIndex(companies, c)
                IN  /\ Len(companies[ci].products) > 0
                    /\ Len(companies[ci].products[1].colors) > 0
                    /\ manualSelection' =
                         Present([fabricCompanyId |-> c,
                                  productId |-> companies[ci].products[1].id,
                                  colorId |-> companies[ci].products[1].colors[1].id])
      ]_vars

\* C3: choosing any product offered by the product select, products added in the
\* admin panel included, keeps the company, sets the product and sets the color
\* to that product's first color.
C3_ProductChangeCascades ==
    [][ConfigurationPanelShown =>
        \A p \in OfferedNow("productId") :
            handleSelectionChange("productId", p) =>
                LET companies == fabricData[productType]
                    ci == FindIndex(companies, Val(manualSelection).fabricCompanyId)
                    pi == FindIndex(companies[ci].products, p)
                IN  /\ Len(companies[ci].products[pi].colors) > 0
                    /\ manualSelection' =
                         Present([fabricCompanyId |-> Val(manualSelection).fabricCompanyId,
                                  productId |-> p,
                                  colorId |-> companies[ci].products[pi].colors[1].id])
      ]_vars

\* C4: choosing a color sets colorId to it and changes neither fabricCompanyId
\* nor productId, nor any other session field, nor the catalog.
C4_ColorChangeOnlyColor ==
    [][ConfigurationPanelShown =>
        \A k \in OfferedNow("colorId") :
            handleSelectionChange("colorId", k) =>
                /\ manualSelection' # Absent
                /\ Val(manualSelection').colorId = k
                /\ Val(manualSelection').fabricCompanyId = Val(manualSelection).fabricCompanyId
                /\ Val(manualSelection').productId = Val(manualSelection).productId
                /\ UNCHANGED <<step, otherFields, fabricData>>
      ]_vars

\* A color other than the first of its product is selected.
C4_Witness ==
    /\ ConfigurationPanelShown
    /\ Val(manualSelection) = [fabricCompanyId |-> "rb-fc2", productId |-> "rb-p3",
                               colorId |-> "rb-c7"]

\* C5: choosing a product type sets the selection to absent for an empty bucket
\* and else to the company, product and color at index 0; for Curtains these are
\* Drapery Dreams, Velvet Luxe and Ruby Red.
C5_ProductTypeInitializesSelection ==
    [][\A t \in ProductType :
        handleProductSelect(t) =>
            LET companies == fabricData[t] IN
            IF Len(companies) = 0 THEN manualSelection' = Absent
            ELSE /\ Len(companies[1].products) > 0
                 /\ Len(companies[1].products[1].colors) > 0
                 /\ manualSelection' =
                      Present([fabricCompanyId |-> companies[1].id,
                               productId |-> companies[1].products[1].id,
                               colorId |-> companies[1].products[1].colors[1].id])
                 /\ t = Curtains =>
                      /\ companies[1].name = "Drapery Dreams"
                      /\ companies[1].products[1].name = "Velvet Luxe"
                      /\ companies[1].products[1].colors[1].name = "Ruby Red"
                      /\ manualSelection' = Present([fabricCompanyId |-> "c-fc1",
                                                     productId |-> "c-p1",
                                                     colorId |-> "c-c1"])
      ]_vars

\* Curtains chosen after the admin panel has added a company to its bucket.
C5_Witness ==
    /\ step = "configure"
    /\ productType = Curtains
    /\ Len(fabricData[Curtains]) > 1
    /\ manualSelection = Present([fabricCompanyId |-> "c-fc1", productId |-> "c-p1",
                                  colorId |-> "c-c1"])

\* C6: going back changes the step and leaves the uploaded file, the product
\* type, the selection, the result and every other session field as they were.
C6_BackChangesOnlyStep ==
    [][handleBack =>
        /\ UNCHANGED <<uploadedFile, productType, manualSelection, simulationResult>>
        /\ UNCHANGED <<simulationMode, isLoading, loadingText, error, activeResultView,
                       curtainStyle>>
      ]_vars

\* Back from the result and back again: the result and the selection are kept.
C6_Witness ==
    /\ step = "select_product"
    /\ manualSelection # Absent
    /\ simulationResult # Absent

CompositeIndexes(requests, isDay) ==
    {i \in 1..Len(requests) :
        requests[i].fn = "simulateWindowCovering" /\ requests[i].isDay = isDay}

\* C8: when the night request of a manual run fails (its day request having
\* succeeded), the run has issued exactly one day request and then exactly one
\* night request, and afterwards the result is absent, the error is the
\* failure's message and the step is configure.
C8_NightFailureLeavesNoResult ==
    [][\A r \in 1..Len(runs) :
        (/\ runs[r].pc = "night"
         /\ runs[r].closure.kind = "manual"
         /\ \E response \in {"no_image", "rejected"} : requestResolves(r, response)) =>
            /\ Cardinality(CompositeIndexes(runs[r].requests, TRUE)) = 1
            /\ Cardinality(CompositeIndexes(runs[r].requests, FALSE)) = 1
            /\ \A d \in CompositeIndexes(runs[r].requests, TRUE) :
                 \A n \in CompositeIndexes(runs[r].requests, FALSE) : d < n
            /\ simulationResult' = Absent
            /\ error' = SimulationFailure(FALSE)
            /\ step' = "configure"
      ]_vars

\* C9: a run in flight has exactly one request outstanding; its night request is
\* in its log only when its day request has come back with an image, and the
\* day request of an automatic run only when the recommendation has come back.
C9_RequestsSequential ==
    \A r \in 1..Len(runs) :
        runs[r].pc # "done" =>
            LET run == runs[r] IN
            /\ Len(run.requests) - run.resolved = 1
            /\ CompositeIndexes(run.requests, FALSE) # {} =>
                 /\ run.dayImage # NULL
                 /\ run.resolved >= Cardinality(CompositeIndexes(run.requests, TRUE))
            /\ (run.closure.kind = "auto" /\ CompositeIndexes(run.requests, TRUE) # {}) =>
                 /\ run.recommendation # NULL
                 /\ run.requests[1].fn = "generateRecommendation"
                 /\ run.resolved >= 1

\* An automatic run awaiting its night request.
C9_Witness ==
    \E r \in 1..Len(runs) :
        /\ runs[r].pc = "night"
        /\ runs[r].closure.kind = "auto"
        /\ Len(runs[r].requests) = 3

\* The message of the failure of the request a run awaits.
FailureMessage(pc) ==
    IF pc = "recommendation" THEN RecommendationFailure
    ELSE SimulationFailure(pc = "day")

\* C10: when the request a run awaits fails, whichever request and run kind it
\* is, the error becomes that failure's message, the step becomes configure,
\* no result is stored, and the run has ended: it issues no request later.
C10_FailureAbortsRun ==
    [][/\ \A r \in 1..Len(runs) :
            (/\ runs[r].pc # "done"
             /\ \E response \in {"no_image", "rejected"} : requestResolves(r, response)) =>
                /\ error' = FailureMessage(runs[r].pc)
                /\ step' = "configure"
                /\ simulationResult' = simulationResult
                /\ runs'[r] = Done
       /\ \A r \in 1..Len(runs) : runs[r] = Done => runs'[r] = Done
      ]_vars

\* A run has failed at its recommendation request.
C10_Witness ==
    /\ error = RecommendationFailure
    /\ step = "configure"
    /\ \E r \in 1..Len(runs) : runs[r] = Done

\* The completion of the request run r awaits is a failure.
RequestFails(r) ==
    \E response \in {"no_image", "rejected"} : requestResolves(r, response)

\* C11: when the day request of an automatic run fails (its recommendation
\* having succeeded), the run has issued no night request, the stage label is
\* the daytime label before and after (the nighttime label was not set), the
\* step is not result before the failure and is configure after it, and the
\* error is the failure message of the composite call.
C11_AutoDayFailure ==
    [][\A r \in 1..Len(runs) :
        (/\ runs[r].pc = "day"
         /\ runs[r].closure.kind = "auto"
         /\ RequestFails(r)) =>
            /\ runs[r].recommendation # NULL
            /\ CompositeIndexes(runs[r].requests, FALSE) = {}
            /\ loadingText = DayLabel
            /\ loadingText' = DayLabel
            /\ step # "result"
            /\ step' = "configure"
            /\ error' = SimulationFailure(TRUE)
      ]_vars

\* The runs that have started and neither completed nor failed.
InFlight == {r \in 1..Len(runs) : runs[r].pc # "done"}

\* C12: at most one run is in flight in every reachable state.
C12_AtMostOneRunInFlight == Cardinality(InFlight) <= 1

\* C13: while the loading flag is true no step executes handleBack or
\* handleReset, whichever control it is bound to: a run in flight does not have
\* the session cleared under it.
C13_NoBackOrResetWhileLoading ==
    [][isLoading => ~(handleBack \/ handleReset \/ onLogoClick)]_vars

\* C14: the step is simulate exactly while a run is in flight, and the loading
\* flag is true all that time.
C14_SimulateWhileInFlight ==
    /\ InFlight # {} => (step = "simulate" /\ isLoading)
    /\ step = "simulate" => InFlight # {}

\* C15: provided every outstanding request eventually resolves or fails, every
\* run in flight eventually finishes, a true loading flag eventually becomes
\* false, and the step simulate is eventually followed by result or configure.
C15_RunsFinish ==
    /\ \A r \in 1..MaxOps : (r \in InFlight) ~> (r \in 1..Len(runs) /\ runs[r] = Done)
    /\ isLoading ~> ~isLoading
    /\ (step = "simulate") ~> (step \in {"result", "configure"})

\* Runs have started and all have finished, the last of them by failing.
C15_Witness ==
    /\ Len(runs) > 0
    /\ InFlight = {}
    /\ ~isLoading
    /\ step = "configure"
    /\ error # NULL

\* Run r finishes in this step, by success or by failure.
Finishes(r) ==
    /\ r \in InFlight
    /\ runs'[r] = Done
    /\ \E response \in CompositeResponses \cup RecommendationResponses :
         requestResolves(r, response)

\* C16 as claimed: in the state a finishing run leaves, the loading flag is
\* false and the stage label is empty.
C16_FinishClearsFlagAndLabel ==
    [][\A r \in 1..Len(runs) :
        Finishes(r) => (isLoading' = FALSE /\ loadingText' = "")]_vars

\* C16 as amended: in the state a finishing run leaves, the loading flag is
\* false, and the stage label is the stage label set last, not empty.
C16_FinishClearsFlagKeepsLabel ==
    [][\A r \in 1..Len(runs) :
        Finishes(r) =>
            /\ isLoading' = FALSE
            /\ loadingText' = loadingText
            /\ loadingText' \in {RecommendationLabel, DayLabel, NightLabel}
      ]_vars

\* A run has succeeded: the result is shown and the label is still the last one.
C16_Witness ==
    /\ \E r \in 1..Len(runs) : runs[r] = Done
    /\ ~isLoading
    /\ step = "result"
    /\ loadingText = NightLabel

\* Run r succeeds in this step: its night request comes back with an image.
Succeeds(r) ==
    /\ r \in InFlight
    /\ runs[r].pc = "night"
    /\ requestResolves(r, "image")

\* C17: when a run succeeds the step becomes result, the result holds the
\* payloads returned to that run's day request and to its night request, and
\* the active result view is day whatever it was before.
C17_SuccessStoresResult ==
    [][\A r \in 1..Len(runs) :
        Succeeds(r) =>
            /\ step' = "result"
            /\ simulationResult' # Absent
            /\ Val(simulationResult').dayImage = ImageData(r, TRUE)
            /\ Val(simulationResult').nightImage = ImageData(r, FALSE)
            /\ runs[r].dayImage = ImageData(r, TRUE)
            /\ activeResultView' = "day"
      ]_vars

\* The second of two runs has succeeded and its result is shown in the day view.
C17_Witness ==
    /\ Len(runs) = 2
    /\ InFlight = {}
    /\ step = "result"
    /\ activeResultView = "day"
    /\ simulationResult # Absent
    /\ Val(simulationResult).dayImage = ImageData(2, TRUE)
    /\ Val(simulationResult).nightImage = ImageData(2, FALSE)

\* C18: the result a successful manual run stores has no recommendation text,
\* and the result a successful automatic run stores has the text returned to
\* that run's recommendation request.
C18_RecommendationText ==
    [][\A r \in 1..Len(runs) :
        Succeeds(r) =>
            /\ simulationResult' # Absent
            /\ Val(simulationResult').recommendationText =
                 IF runs[r].closure.kind = "manual" THEN NULL ELSE RecommendationText(r)
      ]_vars

\* The result of a successful automatic run is shown.
C18_Witness ==
    /\ step = "result"
    /\ simulationResult # Absent
    /\ \E r \in 1..Len(runs) :
         Val(simulationResult).recommendationText = RecommendationText(r)

\* s is an initial part of t.
IsPrefix(s, t) == Len(s) <= Len(t) /\ SubSeq(t, 1, Len(s)) = s

\* The requests of an automatic run as a function of the uploaded file, the
\* product type and the curtain style alone.
AutoRequests(file, type, style) ==
    LET composite(isDay) ==
            [fn |-> "simulateWindowCovering",
             imageBase64 |-> file.base64, imageMimeType |-> file.type,
             productType |-> type,
             colorName |-> "AI suggested color",
             productName |-> "AI suggested style",
             isDay |-> isDay,
             curtainStyle |-> IF type = Curtains THEN style ELSE NULL]
    IN  <<[fn |-> "generateRecommendation",
           imageBase64 |-> file.base64, imageMimeType |-> file.type,
           productType |-> type],
          composite(TRUE), composite(FALSE)>>

\* C19: the requests of an automatic run are determined by the uploaded file,
\* the product type and the curtain style of the session it was started in,
\* whatever the manual selection: the run's log is an initial part of the one
\* sequence those three fix, with the labels 'AI suggested color' and
\* 'AI suggested style' in both composite requests; two automatic runs in
\* flight that agree on the three have issued the same requests.
C19_AutoRunIgnoresSelection ==
    [][/\ \A mode \in SimulationMode :
            (handleModeSelect(mode) /\ Len(runs') = Len(runs) + 1) =>
                /\ mode = Auto
                /\ runs'[Len(runs')].requests =
                     SubSeq(AutoRequests(Val(uploadedFile), productType, curtainStyle), 1, 1)
                /\ runs'[Len(runs')].closure.uploadedFile = Val(uploadedFile)
                /\ runs'[Len(runs')].closure.productType = productType
                /\ runs'[Len(runs')].closure.curtainStyle =
                     IF productType = Curtains THEN curtainStyle ELSE NULL
       /\ \A r \in 1..Len(runs') :
            (runs'[r].pc # "done" /\ runs'[r].closure.kind = "auto") =>
                LET c == runs'[r].closure IN
                /\ IsPrefix(runs'[r].requests,
                            AutoRequests(c.uploadedFile, c.productType, c.curtainStyle))
                /\ \A q \in 1..Len(runs') :
                     (/\ runs'[q].pc # "done"
                      /\ runs'[q].closure.kind = "auto"
                      /\ runs'[q].closure.uploadedFile = c.uploadedFile
                      /\ runs'[q].closure.productType = c.productType
                      /\ runs'[q].closure.curtainStyle = c.curtainStyle) =>
                         \/ IsPrefix(runs'[r].requests, runs'[q].requests)
                         \/ IsPrefix(runs'[q].requests, runs'[r].requests)
      ]_vars

\* An automatic run started with a selection other than the initial one has
\* issued all three of its requests.
C19_Witness ==
    /\ Len(runs) = 1
    /\ isLoading
    /\ runs[1].pc = "night"
    /\ runs[1].closure.kind = "auto"
    /\ manualSelection = Present([fabricCompanyId |-> "c-fc1", productId |-> "c-p1",
                                  colorId |-> "c-c2"])

\* C20: a run called with its precondition unmet does nothing.  "Simulate Now"
\* with the file, the product type or the selection absent, and the Auto button
\* with the file or the product type absent, start no run, issue no request and
\* leave the step, the loading flag, the error, the result and every other
\* session field as they were; the Auto button's handler has set the mode to
\* Auto before it calls the run.
C20_PreconditionFailureIsNoOp ==
    [][/\ (/\ runManualSimulation
           /\ (uploadedFile = Absent \/ productType = NULL \/ manualSelection = Absent)) =>
              /\ runs' = runs
              /\ UNCHANGED <<step, manualSelection, simulationMode, otherFields, fabricData>>
       /\ (/\ handleModeSelect(Auto)
           /\ (uploadedFile = Absent \/ productType = NULL)) =>
              /\ runs' = runs
              /\ simulationMode' = Auto
              /\ UNCHANGED <<step, manualSelection, uploadedFile, productType,
                             simulationResult, isLoading, loadingText, error,
                             activeResultView, curtainStyle, fabricData>>
      ]_vars

\* The Auto button was pressed in a session without an uploaded file: the mode
\* is set and nothing is loading.
C20_Witness ==
    /\ ConfigurationPanelShown
    /\ uploadedFile = Absent
    /\ simulationMode = Auto
    /\ InFlight = {}
    /\ Len(runs) = 1

\* C21: "Simulate Now" with a selection that does not resolve to a product and
\* a color of the catalog starts no run and issues no request, sets the error
\* to 'Could not find product details.', and leaves the loading flag false and
\* the step configure.
C21_UnresolvedSelectionFails ==
    [][(/\ runManualSimulation
        /\ uploadedFile # Absent /\ productType # NULL /\ manualSelection # Absent
        /\ ~ IsPath(fabricData[productType], Val(manualSelection))) =>
            /\ runs' = runs
            /\ error' = "Could not find product details."
            /\ isLoading' = FALSE
            /\ step' = "configure"
      ]_vars

\* "Simulate Now" was pressed with a color that is not in the catalog.
C21_Witness ==
    /\ error = ProductDetailsError
    /\ step = "configure"
    /\ ~isLoading
    /\ runs = << >>
    /\ Val(manualSelection).colorId = "c-gone"
    /\ Val(manualSelection).productId # "p-gone"

\* C22: a composite request that comes back without an image part is not a
\* success (the run ends, the step is not result), and the error it leaves in
\* the session differs from the error a failed service call leaves.
C22_NoImageIsDistinctFailure ==
    [][\A r \in 1..Len(runs) :
        (/\ runs[r].pc \in {"day", "night"}
         /\ requestResolves(r, "no_image")) =>
            /\ runs'[r] = Done
            /\ step' # "result"
            /\ error' # NULL
            /\ error' # simulateWindowCovering(r, runs[r].pc = "day", "rejected").message
      ]_vars

\* C23: in the state reached when a run succeeds and the step becomes result,
\* the error is absent, also when an earlier run had failed and set it.
C23_SuccessClearsError ==
    [][\A r \in 1..Len(runs) : Succeeds(r) => (step' = "result" /\ error' = NULL)]_vars

\* C24: choosing again the product type the session already has (after going
\* back from configure) leaves the selection as it was; only a different
\* product type sets the selection to the first company, product and color.
C24_SameTypeResumesSelection ==
    [][\A t \in ProductType :
        (handleProductSelect(t) /\ manualSelection # Absent) =>
            IF t = productType
            THEN manualSelection' = manualSelection
            ELSE /\ InitialPath(fabricData[t]).threw = FALSE
                 /\ manualSelection' = Present(InitialPath(fabricData[t]).selection)
      ]_vars

\* C25: back sets the step to configure from result, to select_product from
\* configure, to upload from select_product and from admin; it never sets the
\* step to simulate or result, and the handler leaves the step as it is at
\* upload and at simulate.
C25_BackGoesToPreviousStep ==
    [][/\ BackTarget("upload") = "upload"
       /\ BackTarget("simulate") = "simulate"
       /\ handleBack =>
            /\ step = "result" => step' = "configure"
            /\ step = "configure" => step' = "select_product"
            /\ step = "select_product" => step' = "upload"
            /\ step = "admin" => step' = "upload"
            /\ step \in {"upload", "simulate"} => step' = step
            /\ step' \notin {"simulate", "result"}
      ]_vars

\* Back at upload from select_product: the uploaded file is still there.
C25_Witness ==
    /\ step = "upload"
    /\ uploadedFile # Absent
    /\ ~isLoading

\* C26: a press of the admin icon sets the step to admin and changes no other
\* session field and not the catalog, and it happens only when nothing is
\* loading and no run is in flight.
C26_AdminClickOnlyWhenIdle ==
    [][onAdminClick =>
        /\ step' = "admin"
        /\ UNCHANGED <<manualSelection, otherFields, fabricData>>
        /\ ~isLoading
        /\ InFlight = {}
      ]_vars

\* The company id resolves in the bucket, and the product id under the company
\* it resolves to.
CompanyResolves(tab, companyId) == FindIndex(fabricData[tab], companyId) # 0

ProductResolves(tab, companyId, productId) ==
    /\ CompanyResolves(tab, companyId)
    /\ FindIndex(fabricData[tab][FindIndex(fabricData[tab], companyId)].products,
                 productId) # 0

\* C27: handleAddProduct with a company id that does not resolve in the tab's
\* bucket, and handleAddColor with a company id or a product id that does not
\* resolve, fail with an error and leave the catalog as it was.
C27_UnresolvedAddFails ==
    [][\A tab \in AdminTabs :
        \A companyId \in CompanyIdInputs(tab) :
            /\ (~CompanyResolves(tab, companyId) /\ addProduct(tab, companyId)) =>
                 /\ fabricData' = fabricData
                 /\ AddProduct(fabricData, tab, companyId,
                               [id |-> ProductId(clock'), name |-> "Linen Weave",
                                colors |-> << >>]).threw
            /\ \A productId \in ProductIdInputs(tab) :
                 (/\ ~ProductResolves(tab, companyId, productId)
                  /\ addColor(tab, companyId, productId)) =>
                     /\ fabricData' = fabricData
                     /\ AddColor(fabricData, tab, companyId, productId,
                                 [id |-> ColorId(clock'), name |-> "Sand",
                                  hex |-> "#C2B280"]).threw
      ]_vars

\* An add handler has read the clock for its new id and the catalog is still
\* the seed: the call failed.
C27_Witness ==
    /\ step = "admin"
    /\ clock > 0
    /\ fabricData = MOCK_DATA

ColorsKept(old, new) ==
    /\ Len(old) <= Len(new)
    /\ \A k \in 1..Len(old) : new[k] = old[k]

\* Every product of old is at the same position of new with the same id and
\* name, its colors kept.
ProductsKept(old, new) ==
    /\ Len(old) <= Len(new)
    /\ \A j \in 1..Len(old) :
         /\ new[j].id = old[j].id
         /\ new[j].name = old[j].name
         /\ ColorsKept(old[j].colors, new[j].colors)

\* Every company of old is at the same position of new with the same id and
\* name, its products kept.
CompaniesKept(old, new) ==
    /\ Len(old) <= Len(new)
    /\ \A i \in 1..Len(old) :
         /\ new[i].id = old[i].id
         /\ new[i].name = old[i].name
         /\ ProductsKept(old[i].products, new[i].products)

\* The lists of a catalog that are longer in new than in old, named by their
\* place: the bucket of a type, the products of a company, the colors of a
\* product.
GrownLists(old, new) ==
    {<<t>> : t \in {u \in ProductType : Len(new[u]) > Len(old[u])}}
    \cup UNION {{<<t, i>> : i \in {c \in 1..Len(old[t]) :
                        Len(new[t][c].products) > Len(old[t][c].products)}} :
                t \in ProductType}
    \cup UNION {UNION {{<<t, i, j>> : j \in {q \in 1..Len(old[t][i].products) :
                               Len(new[t][i].products[q].colors)
                                 > Len(old[t][i].products[q].colors)}} :
                       i \in 1..Len(old[t])} :
                t \in ProductType}

\* C29: the catalog is append-only.  Whatever the step, every company, product
\* and color is after it where it was, with the same id, name and hex; a step
\* that changes the catalog makes exactly one list longer, by exactly one
\* entry, which is a company without products or a product without colors or a
\* color.
C29_AppendOnly ==
    [][/\ \A t \in ProductType : CompaniesKept(fabricData[t], fabricData'[t])
       /\ (fabricData' # fabricData) =>
             /\ Cardinality(GrownLists(fabricData, fabricData')) = 1
             /\ CatalogEntries(fabricData') = CatalogEntries(fabricData) + 1
             /\ \A t \in ProductType :
                  /\ \A i \in (Len(fabricData[t]) + 1)..Len(fabricData'[t]) :
                       fabricData'[t][i].products = << >>
                  /\ \A i \in 1..Len(fabricData[t]) :
                       \A j \in (Len(fabricData[t][i].products) + 1)
                                  ..Len(fabricData'[t][i].products) :
                         fabricData'[t][i].products[j].colors = << >>
      ]_vars

\* A company was added, and then a product to it: the seed companies are where
\* they were and the added company is last, with its one product.
C29_Witness ==
    /\ Len(fabricData[Curtains]) = Len(MOCK_DATA[Curtains]) + 1
    /\ CompaniesKept(MOCK_DATA[Curtains], fabricData[Curtains])
    /\ Len(fabricData[Curtains][Len(fabricData[Curtains])].products) = 1

\* No two entries of a list have the same id.
UniqueIds(seq) ==
    \A i, j \in 1..Len(seq) : seq[i].id = seq[j].id => i = j

\* C30: in every reachable catalog no two companies of one product type, no two
\* products of one company and no two colors of one product have the same id.
C30_SiblingIdsUnique ==
    \A t \in ProductType :
        /\ UniqueIds(fabricData[t])
        /\ \A i \in 1..Len(fabricData[t]) :
             /\ UniqueIds(fabricData[t][i].products)
             /\ \A j \in 1..Len(fabricData[t][i].products) :
                  UniqueIds(fabricData[t][i].products[j].colors)

\* A step of one of the three add handlers of the AdminPanel.
AdminAddition ==
    \/ \E activeTab \in AdminTabs, newItemName \in NameInputs :
         handleAddCompany(activeTab, newItemName)
    \/ \E activeTab \in AdminTabs :
         \E companyId \in Ids(fabricData[activeTab]) :
           handleAddProduct(activeTab, companyId)
    \/ \E activeTab \in AdminTabs :
         \E ci \in 1..Len(fabricData[activeTab]) :
           \E pi \in 1..Len(fabricData[activeTab][ci].products) :
             handleAddColor(activeTab, fabricData[activeTab][ci].id,
                            fabricData[activeTab][ci].products[pi].id)

\* A step of any other handler or of a run: upload, product type, selection
\* change, curtain style, view, mode, Simulate Now, a request coming back (the
\* run going on, succeeding or failing), back, reset, logo, cog, dismiss.
OtherStep ==
    \/ handleBack
    \/ handleReset
    \/ onLogoClick
    \/ onAdminClick
    \/ dismissError
    \/ \E file \in UploadedFiles : handleImageUpload(file)
    \/ \E type \in ProductType : handleProductSelect(type)
    \/ \E key \in SelectionKeys :
         \E value \in OfferedNow(key) :
           handleSelectionChange(key, value)
    \/ \E style \in CurtainStyle : setCurtainStyle(style)
    \/ \E view \in ResultViews : setActiveView(view)
    \/ runManualSimulation
    \/ \E mode \in SimulationMode : handleModeSelect(mode)
    \/ \E r \in 1..Len(runs) :
         \E response \in CompositeResponses \cup RecommendationResponses :
           requestResolves(r, response)

\* C31: the catalog is changed only by the admin add operations: every step of
\* another handler or of a run leaves it as it was, and a step that changes it
\* is a step of an add handler.
C31_OnlyAdditionsChangeCatalog ==
    [][/\ OtherStep => fabricData' = fabricData
       /\ (fabricData' # fabricData) => AdminAddition
      ]_vars

\* A catalog with an added entry has gone through a run and a reset: the entry
\* is still there.
C31_Witness ==
    /\ Added > 0
    /\ Len(runs) > 0
    /\ InFlight = {}
    /\ step = "upload"
    /\ uploadedFile = Absent

\* C32: every composite request issued by a run whose product type is
\* VerticalBlinds or RollerBlinds has no curtain style.
C32_StyleOnlyForCurtains ==
    \A r \in InFlight :
        \A k \in 1..Len(runs[r].requests) :
            (/\ runs[r].requests[k].fn = "simulateWindowCovering"
             /\ runs[r].requests[k].productType # Curtains) =>
                runs[r].requests[k].curtainStyle = NULL

\* The same of the requests of automatic runs alone.
AutoStyleOnlyForCurtains ==
    \A r \in InFlight :
        \A k \in 1..Len(runs[r].requests) :
            (/\ runs[r].closure.kind = "auto"
             /\ runs[r].requests[k].fn = "simulateWindowCovering"
             /\ runs[r].requests[k].productType # Curtains) =>
                runs[r].requests[k].curtainStyle = NULL

\* C33: the image shown in the result view is, for view day, the day composite
\* if the result has one and the uploaded image otherwise; for view night, the
\* night composite if the result has one and the uploaded image otherwise; for
\* view original, the uploaded image.
C33_DisplayedImage ==
    (step = "result" /\ simulationResult # Absent /\ uploadedFile # Absent) =>
        LET result == Val(simulationResult)
            uploaded == DataUrl(Val(uploadedFile).type, Val(uploadedFile).base64)
            shown == displayedImage(activeResultView, result, originalImage)
        IN  /\ activeResultView = "day" =>
                 shown = IF result.dayImage # NULL
                         THEN DataUrl("image/png", result.dayImage) ELSE uploaded
            /\ activeResultView = "night" =>
                 shown = IF result.nightImage # NULL
                         THEN DataUrl("image/png", result.nightImage) ELSE uploaded
            /\ activeResultView = "original" => shown = uploaded

\* The night view of a result that has a day image and no night image shows the
\* uploaded image.
C33_Witness ==
    /\ step = "result"
    /\ activeResultView = "night"
    /\ simulationResult # Absent
    /\ Val(simulationResult).nightImage = NULL
    /\ Val(simulationResult).dayImage # NULL
    /\ displayedImage(activeResultView, Val(simulationResult), originalImage)
         = "data:image/png;base64,b64-window"

\* C34: in every reachable state in which the step is result, an uploaded image
\* is present.
C34_ResultHasImage == step = "result" => uploadedFile # Absent

\* C35: in every reachable state in which the step is result, a simulation
\* result is present.
C35_ResultHasResult == step = "result" => simulationResult # Absent

\* The result view is shown with the result of a run that was overtaken by a
\* later run, which is still in flight.
C35_Witness ==
    /\ step = "result"
    /\ simulationResult # Absent
    /\ InFlight # {}

\* C36: in every reachable state in which the step is configure, the product
\* type and the uploaded image are present.
C36_ConfigureHasTypeAndImage ==
    step = "configure" => (productType # NULL /\ uploadedFile # Absent)

\* C37: the step that starts a run, manual or automatic, leaves the simulation
\* result absent while it issues the run's first request, and the step in
\* which a run fails leaves the simulation result absent.
C37_FailedRunLeavesNoResult ==
    [][/\ (Len(runs') > Len(runs)) =>
            /\ simulationResult' = Absent
            /\ Len(runs'[Len(runs')].requests) = 1
       /\ \A r \in 1..Len(runs) : RequestFails(r) => simulationResult' = Absent
      ]_vars

\* The same of the step that starts a run alone.
RunStartClearsResult ==
    [][(Len(runs') > Len(runs)) => simulationResult' = Absent]_vars

\* C38: the day request a manual run issues when it starts carries the names of
\* the color and the product the selection resolves to in the catalog of that
\* moment, and the image, MIME type and product type of that moment; the night
\* request it issues when the day request has succeeded is the day request with
\* the daytime flag false, whatever the session holds by then.
C38_ManualRequestsCarrySelection ==
    [][/\ (/\ Len(runs') > Len(runs)
           /\ runs'[Len(runs')].closure.kind = "manual") =>
             LET request == runs'[Len(runs')].requests[1]
                 resolved == ResolveSelection(fabricData, productType, Val(manualSelection))
             IN  /\ Len(runs'[Len(runs')].requests) = 1
                 /\ request.fn = "simulateWindowCovering"
                 /\ request.isDay = TRUE
                 /\ resolved.found
                 /\ request.colorName = resolved.color.name
                 /\ request.productName = resolved.product.name
                 /\ request.imageBase64 = Val(uploadedFile).base64
                 /\ request.imageMimeType = Val(uploadedFile).type
                 /\ request.productType = productType
       /\ \A r \in 1..Len(runs) :
            (/\ runs[r].pc = "day"
             /\ runs[r].closure.kind = "manual"
             /\ requestResolves(r, "image")) =>
                /\ Len(runs[r].requests) = 1
                /\ runs'[r].requests =
                     <<runs[r].requests[1], [runs[r].requests[1] EXCEPT !.isDay = FALSE]>>
      ]_vars

\* A manual run has issued its night request for Emerald Green Velvet Luxe
\* after the session was reset under it.
C38_Witness ==
    \E r \in 1..Len(runs) :
        /\ runs[r].pc = "night"
        /\ runs[r].closure.kind = "manual"
        /\ Len(runs[r].requests) = 2
        /\ runs[r].requests[2].colorName = "Emerald Green"
        /\ runs[r].requests[2].productName = "Velvet Luxe"
        /\ manualSelection = Absent

\* C39: an addition with missing input leaves the catalog as it was: Add
\* Company with an empty or blank name, Add Product with the name prompt
\* answered empty or cancelled, Add Color with the name or the hex prompt
\* answered empty or cancelled, whatever ids the handler is called with.
C39_MissingInputIsNoOp ==
    [][\A tab \in AdminTabs :
        /\ \A name \in {"", "  "} :
             handleAddCompany(tab, name) => fabricData' = fabricData
        /\ \A companyId \in CompanyIdInputs(tab) :
             /\ \A productName \in {NULL, ""} :
                  addProductNamed(tab, companyId, productName) =>
                      fabricData' = fabricData
             /\ \A productId \in ProductIdInputs(tab) :
                  \A colorName \in ColorNameAnswers, colorHex \in ColorHexAnswers :
                      (/\ colorName \in {NULL, ""} \/ colorHex \in {NULL, ""}
                       /\ addColorNamed(tab, companyId, productId, colorName, colorHex)) =>
                          fabricData' = fabricData
      ]_vars

\* The admin panel after additions that did nothing: the catalog is the seed
\* and no id was taken from the clock.
C39_Witness ==
    /\ step = "admin"
    /\ events = MaxEvents
    /\ fabricData = MOCK_DATA
    /\ clock = 0

====
